---- MODULE Spec2Model ----
(***************************************************************************)
(* Model of the ESG Excel processor: the blob-triggered handler            *)
(* (function_app.py), the extraction adapter (utils/document_analyzer.py)  *)
(* and the ESG classifier (utils/data_processor.py).                       *)
(*                                                                         *)
(* Text is modelled as a sequence of tokens.  A token is a maximal run of  *)
(* letters ("carbon"), a run of digits ("45") or a single punctuation or   *)
(* white-space character (".", ",", " ", ":", "%", "-", "/").  Two letter  *)
(* tokens are never adjacent in an input.  Confidences are in hundredths   *)
(* (0.8 is 80).                                                            *)
(***************************************************************************)
EXTENDS Integers, Sequences, FiniteSets, TLC

\* ------------------------------------------------------------------ bounds
\* Number of invocations the host starts in one process.
MaxInvocations == 2

Invocations == 1..MaxInvocations

\* ------------------------------------------------- program constants
MAX_FILE_SIZE_MB == 50
max_retries == 3
delay == 2
backoff == 2
MB == 1024 * 1024

valid_extensions == << <<".", "xlsx">>, <<".", "xls">>, <<".", "xlsm">> >>

\* ----------------------------------------------------- generic helpers
Range(s) == {s[k] : k \in 1..Len(s)}

Max(S) == CHOOSE m \in S : \A n \in S : n <= m

\* str.lower() on one token: the tokens of the vocabulary that hold an
\* upper-case letter, with their lower-cased form.
LowerToken(t) ==
  CASE t = "XLSX"   -> "xlsx"
    [] t = "XLSM"   -> "xlsm"
    [] t = "Xls"    -> "xls"
    [] t = "CSV"    -> "csv"
    [] t = "Carbon" -> "carbon"
    [] t = "CARBON" -> "carbon"
    [] t = "Water"  -> "water"
    [] t = "Board"  -> "board"
    [] t = "Employee" -> "employee"
    [] t = "MWh"    -> "mwh"
    [] t = "Energy" -> "energy"
    [] t = "Metric" -> "metric"
    [] t = "Value"  -> "value"
    [] t = "Unit"   -> "unit"
    [] t = "REPORT" -> "report"
    [] OTHER        -> t

\* str.lower() on a text.
Lower(text) == [k \in 1..Len(text) |-> LowerToken(text[k])]

\* str.rfind(ch): the last index of ch in p, 0 when there is none
\* (indices are 1-based here, so Python's -1 is 0).
RFind(p, ch) ==
  LET hits == {k \in 1..Len(p) : p[k] = ch}
  IN  IF hits = {} THEN 0 ELSE Max(hits)

\* os.path.splitext(p)[1]: the part from the last dot on, provided that dot
\* comes after the last separator and some character of the file name
\* before it is not a dot; the empty string otherwise.
SplitExt(p) ==
  LET sepIndex == RFind(p, "/")
      dotIndex == RFind(p, ".")
  IN  IF dotIndex > sepIndex
         /\ \E k \in (sepIndex + 1)..(dotIndex - 1) : p[k] # "."
      THEN SubSeq(p, dotIndex, Len(p))
      ELSE <<>>

\* ------------------------------------------------------------ exceptions
NoExc == [type |-> "None", msg |-> "None"]

ValueError(m) == [type |-> "ValueError", msg |-> m]

\* DocumentAnalyzerImproved.validate_file: the exception it raises, NoExc
\* when the file passes.  len/(1024*1024) is a division by a power of two,
\* exact in floating point, so the comparison is the integer one.
validate_file_strict_mutant(size, filename) ==
  IF size >= MAX_FILE_SIZE_MB * MB
  THEN ValueError("File size exceeds maximum 50MB")
  ELSE IF Lower(SplitExt(filename)) \notin Range(valid_extensions)
       THEN ValueError("Invalid file extension")
       ELSE NoExc

validate_file(size, filename) ==
  IF size > MAX_FILE_SIZE_MB * MB
  THEN ValueError("File size exceeds maximum 50MB")
  ELSE IF Lower(SplitExt(filename)) \notin Range(valid_extensions)
       THEN ValueError("Invalid file extension")
       ELSE NoExc


\* ------------------------------------------------------------ tokens
DigitTokens == {"0", "1", "2", "5", "12", "45", "234", "3200"}

SpaceTokens == {" ", "\n"}

PunctTokens == {".", ",", ":", "%", "-", "/", "!", "?"}

IsDigit(t) == t \in DigitTokens

IsSpace(t) == t \in SpaceTokens

\* [a-zA-Z]+ : every token that is neither digits, white space nor
\* punctuation is a run of letters.
IsLetter(t) == t \notin DigitTokens \cup SpaceTokens \cup PunctTokens

\* \w : letters and digits.
IsWord(t) == IsLetter(t) \/ IsDigit(t)

\* The number a digit token denotes, and how many digits it has.
DigitVal(t) ==
  CASE t = "0" -> 0 [] t = "1" -> 1 [] t = "2" -> 2 [] t = "5" -> 5
    [] t = "12" -> 12 [] t = "45" -> 45 [] t = "234" -> 234
    [] t = "3200" -> 3200

DigitLen(t) ==
  CASE t \in {"0", "1", "2", "5"} -> 1
    [] t \in {"12", "45"} -> 2
    [] t = "234" -> 3
    [] t = "3200" -> 4

RECURSIVE Pow10(_)
Pow10(n) == IF n = 0 THEN 1 ELSE 10 * Pow10(n - 1)

\* The number written by a run of digit tokens ("1" "234" is 1234).
RECURSIVE DigitsVal(_)
DigitsVal(ds) ==
  IF ds = <<>> THEN 0
  ELSE LET last == ds[Len(ds)]
       IN  DigitsVal(SubSeq(ds, 1, Len(ds) - 1)) * Pow10(DigitLen(last))
           + DigitVal(last)

RECURSIVE DigitsLen(_)
DigitsLen(ds) ==
  IF ds = <<>> THEN 0 ELSE DigitLen(ds[1]) + DigitsLen(Tail(ds))

\* str.strip(): white space removed at both ends.
Strip(text) ==
  LET keep == {k \in 1..Len(text) : ~IsSpace(text[k])}
  IN  IF keep = {} THEN <<>>
      ELSE SubSeq(text, CHOOSE a \in keep : \A b \in keep : a <= b, Max(keep))

\* str.replace(',', '').
RemoveCommas(text) == SelectSeq(text, LAMBDA t : t # ",")

\* The character classes of the regular expressions: [0-9.], \s,
\* [a-zA-Z%], [.!?] and [0-9,.\s].
InClass(t, cls) ==
  CASE cls = "[0-9.]"     -> IsDigit(t) \/ t = "."
    [] cls = "\\s"        -> IsSpace(t)
    [] cls = "[a-zA-Z%]"  -> IsLetter(t) \/ t = "%"
    [] cls = "[.!?]"      -> t \in {".", "!", "?"}
    [] cls = "[0-9,.\\s]" -> IsDigit(t) \/ IsSpace(t) \/ t \in {",", "."}

\* The longest prefix of text, from index k on, whose tokens satisfy Cls:
\* the index just after it.
RunEnd(text, k, cls) ==
  CHOOSE j \in k..(Len(text) + 1) :
     /\ \A i \in k..(j - 1) : InClass(text[i], cls)
     /\ (j = Len(text) + 1 \/ ~InClass(text[j], cls))

\* A float is kept as mantissa and number of decimals, trailing zero
\* decimals dropped (1.50 = 1.5, 12.0 = 12).
NoneValue == [mant |-> 0 - 1, scale |-> 0]

RECURSIVE Normal(_, _)
Normal(mant, scale) ==
  IF scale > 0 /\ mant % 10 = 0 THEN Normal(mant \div 10, scale - 1)
  ELSE [mant |-> mant, scale |-> scale]

\* float(s) for a string of digits, decimal points and white space: the
\* value, or NoneValue where Python raises ValueError.  float() ignores
\* white space around the number and accepts "1.", ".5" but not "." or
\* "1.2.3" or "1 2" or "".
float(s) ==
  LET t    == Strip(s)
      dots == {k \in 1..Len(t) : t[k] = "."}
      digs == {k \in 1..Len(t) : IsDigit(t[k])}
  IN  IF digs = {} \/ Cardinality(dots) > 1
         \/ dots \cup digs # 1..Len(t)
      THEN NoneValue
      ELSE LET frac == IF dots = {} THEN <<>>
                       ELSE SubSeq(t, Max(dots) + 1, Len(t))
               all  == SelectSeq(t, IsDigit)
           IN  Normal(DigitsVal(all), DigitsLen(frac))

\* ------------------------------------------------ models/esg_models.py
NoneInt == 0 - 1

None == "None"

NoUnit == <<>>

ESGMetric(category, metric_name, value, unit, source_table, confidence) ==
  [category |-> category, metric_name |-> metric_name, value |-> value,
   unit |-> unit, year |-> NoneInt, source_table |-> source_table,
   source_page |-> NoneInt, confidence |-> confidence]

\* ------------------------------------------- utils/data_processor.py
Categories == <<"environmental", "social", "governance">>

\* ESG_KEYWORDS, each keyword as its token sequence, in source order.
ESG_KEYWORDS(category) ==
  CASE category = "environmental" ->
         << <<"carbon">>, <<"co", "2">>, <<"emission">>, <<"ghg">>,
            <<"greenhouse", " ", "gas">>, <<"energy">>, <<"renewable">>,
            <<"waste">>, <<"water">>, <<"recycling">>, <<"biodiversity">>,
            <<"climate">>, <<"pollution">>, <<"sustainability">> >>
    [] category = "social" ->
         << <<"employee">>, <<"diversity">>, <<"inclusion">>, <<"safety">>,
            <<"health">>, <<"community">>, <<"human", " ", "rights">>,
            <<"labor">>, <<"training">>, <<"education">>,
            <<"customer", " ", "satisfaction">>, <<"privacy">>,
            <<"data", " ", "protection">> >>
    [] category = "governance" ->
         << <<"board">>, <<"ethics">>, <<"compliance">>, <<"risk">>,
            <<"audit">>, <<"transparency">>, <<"corruption">>, <<"policy">>,
            <<"management">>, <<"shareholder">>, <<"stakeholder">>,
            <<"executive", " ", "compensation">> >>

\* re.compile(rf'\b{keyword}\b', re.IGNORECASE).search(text): the keyword
\* occurs in the text with no word character right before or after it.
PatternSearch(keyword, text) ==
  LET folded == Lower(text)
  IN  \E k \in 1..(Len(text) - Len(keyword) + 1) :
         /\ SubSeq(folded, k, k + Len(keyword) - 1) = keyword
         /\ (k = 1 \/ ~IsWord(text[k - 1]))
         /\ (k + Len(keyword) > Len(text) \/ ~IsWord(text[k + Len(keyword)]))

\* Mutant: the category of the keyword that occurs first in the text.
categorize_text_position_mutant(text) ==
  LET hit(k) == {c \in 1..Len(Categories) :
                   \E j \in 1..Len(ESG_KEYWORDS(Categories[c])) :
                      LET kw == ESG_KEYWORDS(Categories[c])[j]
                      IN  /\ k + Len(kw) - 1 <= Len(text)
                          /\ Lower(SubSeq(text, k, k + Len(kw) - 1)) = kw}
      at == {k \in 1..Len(text) : hit(k) # {}}
  IN  IF at = {} THEN None
      ELSE Categories[CHOOSE c \in hit(CHOOSE a \in at : \A b \in at : a <= b) : TRUE]

\* ESGDataProcessor._categorize_text
categorize_text(text) ==
  IF text = <<>> THEN None
  ELSE LET text_lower == Lower(text)
           matching == {c \in 1..Len(Categories) :
                          \E j \in 1..Len(ESG_KEYWORDS(Categories[c])) :
                             PatternSearch(ESG_KEYWORDS(Categories[c])[j],
                                           text_lower)}
       IN  IF matching = {} THEN None
           ELSE Categories[CHOOSE c \in matching : \A d \in matching : c <= d]

NoParse == [ok |-> FALSE, value |-> NoneValue, unit |-> NoUnit]

\* Mutant: a number that does not parse is returned as a missing value
\* instead of being rejected.
parse_value_partial_mutant(value_str) ==
  IF value_str = <<>> THEN NoParse
  ELSE LET s == RemoveCommas(Strip(value_str))
           numEnd == RunEnd(s, 1, "[0-9.]")
           spEnd == RunEnd(s, numEnd, "\\s")
           unitEnd == RunEnd(s, spEnd, "[a-zA-Z%]")
       IN  IF numEnd = 1 THEN NoParse
           ELSE [ok |-> TRUE, value |-> float(SubSeq(s, 1, numEnd - 1)),
                 unit |-> SubSeq(s, spEnd, unitEnd - 1)]

\* ESGDataProcessor._parse_value: re.match(r'([0-9.]+)\s*([a-zA-Z%]*)') on
\* the stripped, comma-free string, then float() of the first group.
parse_value(value_str) ==
  IF value_str = <<>> THEN NoParse
  ELSE LET s == RemoveCommas(Strip(value_str))
           numEnd == RunEnd(s, 1, "[0-9.]")
           spEnd == RunEnd(s, numEnd, "\\s")
           unitEnd == RunEnd(s, spEnd, "[a-zA-Z%]")
           value == float(SubSeq(s, 1, numEnd - 1))
       IN  IF numEnd = 1 \/ value = NoneValue THEN NoParse
           ELSE [ok |-> TRUE, value |-> value,
                 unit |-> SubSeq(s, spEnd, unitEnd - 1)]


\* The elements of a set of integers in ascending order.
RECURSIVE SortedSeq(_)
SortedSeq(S) ==
  IF S = {} THEN <<>>
  ELSE LET m == CHOOSE a \in S : \A b \in S : a <= b
       IN  <<m>> \o SortedSeq(S \ {m})

RECURSIVE Flatten(_)
Flatten(ss) == IF ss = <<>> THEN <<>> ELSE ss[1] \o Flatten(Tail(ss))

\* rows[row_idx] of _extract_metrics_from_table, a dict col_idx -> content:
\* its keys in insertion order (first occurrence of each column)...
RowCols(cells, r) ==
  LET first == {k \in 1..Len(cells) :
                  /\ cells[k].row_index = r
                  /\ \A j \in 1..(k - 1) :
                        ~(cells[j].row_index = r
                          /\ cells[j].column_index = cells[k].column_index)}
      order == SortedSeq(first)
  IN  [i \in 1..Len(order) |-> cells[order[i]].column_index]

\* ... and its value at a key (a later cell at the same position
\* overwrites an earlier one).
RowData(cells, r, c) ==
  cells[Max({k \in 1..Len(cells) :
               cells[k].row_index = r /\ cells[k].column_index = c})].content

\* Lines 110-135: the metric of the cell at (r, col_idx), if its text
\* categorizes and a cell to its right parses; a list of 0 or 1 metric.
CellMetrics(cells, r, col_idx, table_idx) ==
  LET value == RowData(cells, r, col_idx)
      category == categorize_text(value)
      keys == Range(RowCols(cells, r))
      adj == {a \in (col_idx + 1)..Max(keys) :
                a \in keys /\ parse_value(RowData(cells, r, a)).ok}
  IN  IF category = None \/ adj = {} THEN <<>>
      ELSE LET parsed == parse_value(
                  RowData(cells, r, CHOOSE a \in adj : \A b \in adj : a <= b))
           IN  << ESGMetric(category, value, parsed.value, parsed.unit,
                            table_idx, 80) >>

RowMetrics(cells, r, table_idx) ==
  LET cols == RowCols(cells, r)
  IN  Flatten([i \in 1..Len(cols) |-> CellMetrics(cells, r, cols[i], table_idx)])

\* Mutant: the header row is scanned like a data row.
extract_metrics_from_table_header_mutant(table, table_idx) ==
  LET rows == SortedSeq({table.cells[k].row_index : k \in 1..Len(table.cells)})
  IN  Flatten([i \in 1..Len(rows) |-> RowMetrics(table.cells, rows[i], table_idx)])

\* ESGDataProcessor._extract_metrics_from_table
extract_metrics_from_table(table, table_idx) ==
  LET rows == SortedSeq({table.cells[k].row_index : k \in 1..Len(table.cells)}
                        \ {0})
  IN  Flatten([i \in 1..Len(rows) |-> RowMetrics(table.cells, rows[i], table_idx)])

\* ESGDataProcessor._process_key_value_pair: a list of 0 or 1 metric
\* (the source returns the metric or None).
process_key_value_pair(kvp) ==
  LET category == categorize_text(kvp.key)
      parsed == parse_value(kvp.value)
  IN  IF category # None /\ parsed.ok
      THEN << ESGMetric(category, kvp.key, parsed.value, parsed.unit,
                        NoneInt, kvp.confidence) >>
      ELSE <<>>

IsTerminator(t) == t \in {".", "!", "?"}

\* re.split(r'[.!?]+', content)
RECURSIVE SplitSentences(_, _, _, _)
SplitSentences(content, k, cur, out) ==
  IF k > Len(content) THEN Append(out, cur)
  ELSE IF IsTerminator(content[k])
       THEN SplitSentences(content, RunEnd(content, k, "[.!?]"), <<>>,
                           Append(out, cur))
       ELSE SplitSentences(content, k + 1, Append(cur, content[k]), out)

\* [0-9,.\s]
IsNumeric(t) == IsDigit(t) \/ IsSpace(t) \/ t \in {",", "."}

\* re.search(r'([^:]+):\s*([0-9,.\s]+)([a-zA-Z%]*)', sentence): the leftmost
\* match is at the first colon that has a non-colon character before it and
\* a numeric character or white space after it; group 1 runs back to the
\* previous colon.  \s* takes the leading white space and group 2 the
\* numeric run after it; when that run is empty \s* gives its last
\* character back to group 2.
SearchMetric(sentence) ==
  LET colons == {c \in 2..(Len(sentence) - 1) :
                   /\ sentence[c] = ":"
                   /\ sentence[c - 1] # ":"
                   /\ IsNumeric(sentence[c + 1])}
  IN  IF colons = {} THEN [found |-> FALSE]
      ELSE LET c == CHOOSE a \in colons : \A b \in colons : a <= b
               before == {j \in 1..(c - 1) : sentence[j] = ":"}
               start == IF before = {} THEN 1 ELSE Max(before) + 1
               wsEnd == RunEnd(sentence, c + 1, "\\s")
               numEnd == RunEnd(sentence, wsEnd, "[0-9,.\\s]")
               g2 == IF numEnd > wsEnd THEN SubSeq(sentence, wsEnd, numEnd - 1)
                     ELSE SubSeq(sentence, wsEnd - 1, wsEnd - 1)
               unitEnd == RunEnd(sentence, numEnd,
                                 "[a-zA-Z%]")
           IN  [found |-> TRUE,
                group1 |-> SubSeq(sentence, start, c - 1),
                group2 |-> g2,
                group3 |-> SubSeq(sentence, numEnd, unitEnd - 1)]

\* Lines 167-188: the metric of one sentence; a list of 0 or 1 metric.
SentenceMetrics(sentence) ==
  LET match == SearchMetric(sentence)
  IN  IF ~match.found THEN <<>>
      ELSE LET metric_name == Strip(match.group1)
               value_str == Strip(match.group2)
               unit == Strip(match.group3)
               category == categorize_text(metric_name)
               value == float(RemoveCommas(value_str))
           IN  IF category = None \/ value = NoneValue THEN <<>>
               ELSE << ESGMetric(category, metric_name, value, unit,
                                 NoneInt, 60) >>

\* ESGDataProcessor._analyze_content
analyze_content(content) ==
  LET sentences == SplitSentences(content, 1, <<>>, <<>>)
  IN  Flatten([i \in 1..Len(sentences) |-> SentenceMetrics(sentences[i])])

RECURSIVE SumConfidence(_)
SumConfidence(metrics) ==
  IF metrics = <<>> THEN 0
  ELSE metrics[1].confidence + SumConfidence(Tail(metrics))

CountCategory(metrics, category) ==
  Cardinality({k \in 1..Len(metrics) : metrics[k].category = category})

\* Mutant: the counts are taken before the last metric is added.
calculate_summary_short_mutant(metrics) ==
  LET counted == SubSeq(metrics, 1, Len(metrics) - 1)
  IN  [total_metrics |-> Len(metrics),
       metrics_by_category |->
         [environmental |-> CountCategory(counted, "environmental"),
          social |-> CountCategory(counted, "social"),
          governance |-> CountCategory(counted, "governance")],
       average_confidence |->
         IF metrics = <<>> THEN [num |-> 0, den |-> 1]
         ELSE [num |-> SumConfidence(metrics), den |-> Len(metrics)]]

\* ESGDataProcessor._calculate_summary.  average_confidence is the
\* fraction total_confidence / len(metrics), kept as num/den (0.0 is 0/1).
calculate_summary(metrics) ==
  [total_metrics |-> Len(metrics),
   metrics_by_category |->
     [environmental |-> CountCategory(metrics, "environmental"),
      social |-> CountCategory(metrics, "social"),
      governance |-> CountCategory(metrics, "governance")],
   average_confidence |->
     IF metrics = <<>> THEN [num |-> 0, den |-> 1]
     ELSE [num |-> SumConfidence(metrics), den |-> Len(metrics)]]

\* Variant: the pairs are walked in an order of its own (as an unordered
\* container would give) and before the tables.
process_esg_data_unordered_mutant(extracted_data) ==
  LET tables == extracted_data.tables
      kvps == extracted_data.key_value_pairs
      metrics ==
        Flatten([i \in 1..Len(kvps) |->
                   process_key_value_pair(kvps[Len(kvps) + 1 - i])])
        \o Flatten([i \in 1..Len(tables) |->
                      extract_metrics_from_table(tables[i], i - 1)])
        \o analyze_content(extracted_data.content)
  IN  [filename |-> extracted_data.filename,
       extraction_date |-> "utcnow",
       metrics |-> metrics,
       summary |-> calculate_summary(metrics),
       metadata |-> None]

\* ESGDataProcessor.process_esg_data followed by ESGReport.to_dict.  The
\* three passes in order; table_idx is the position of the table in the
\* record (enumerate, from 0).  extraction_date is the clock's reading.
process_esg_data(extracted_data) ==
  LET tables == extracted_data.tables
      kvps == extracted_data.key_value_pairs
      metrics ==
        Flatten([i \in 1..Len(tables) |->
                   extract_metrics_from_table(tables[i], i - 1)])
        \o Flatten([i \in 1..Len(kvps) |-> process_key_value_pair(kvps[i])])
        \o analyze_content(extracted_data.content)
  IN  [filename |-> extracted_data.filename,
       extraction_date |-> "utcnow",
       metrics |-> metrics,
       summary |-> calculate_summary(metrics),
       metadata |-> None]


\* ----------------------------------------- utils/document_analyzer.py
\* The service's result is modelled with its optional parts explicit:
\*   result = [pages, tables, key_value_pairs, content, null_lists]
\*     null_lists: the list attributes the service left as None
\*   page  = [page_number, lines, lines_null]
\*   table = [row_count, column_count, cells]
\*     cell = [row_index, column_index, content, has_position]
\*   pair  = [key, value, confidence]
\*     key, value = [state, content], state "absent" (no such attribute),
\*     "null" (attribute present, None) or "set"; confidence in hundredths

\* DocumentAnalyzerImproved._extract_page_data.  Iterating lines that are
\* None raises TypeError.
extract_page_data(page) ==
  IF page.lines_null THEN [ok |-> FALSE]
  ELSE [ok |-> TRUE,
        data |-> [page_number |-> page.page_number,
                  lines |-> [k \in 1..Len(page.lines) |->
                               [content |-> page.lines[k]]]]]

\* sorted(table.cells, key=lambda c: (c.row_index, c.column_index)): a
\* stable sort, ties keep their original order.
RECURSIVE SortedCells(_, _)
SortedCells(cells, idxs) ==
  IF idxs = {} THEN <<>>
  ELSE LET before(a, b) ==
             \/ cells[a].row_index < cells[b].row_index
             \/ /\ cells[a].row_index = cells[b].row_index
                /\ \/ cells[a].column_index < cells[b].column_index
                   \/ /\ cells[a].column_index = cells[b].column_index
                      /\ a <= b
           m == CHOOSE a \in idxs : \A b \in idxs : before(a, b)
       IN  <<cells[m]>> \o SortedCells(cells, idxs \ {m})

\* DocumentAnalyzerImproved._extract_table_data.  A cell without
\* row_index or column_index makes the sort key raise AttributeError.
extract_table_data(table, table_idx) ==
  IF \E k \in 1..Len(table.cells) : ~table.cells[k].has_position
  THEN [ok |-> FALSE]
  ELSE LET sorted_cells == SortedCells(table.cells, 1..Len(table.cells))
           cells == [k \in 1..Len(sorted_cells) |->
                       [row_index |-> sorted_cells[k].row_index,
                        column_index |-> sorted_cells[k].column_index,
                        content |-> Strip(sorted_cells[k].content),
                        row_span |-> 1,
                        column_span |-> 1,
                        is_header |-> sorted_cells[k].row_index = 0]]
           header_cells == SelectSeq(cells, LAMBDA c : c.is_header)
       IN  [ok |-> TRUE,
            data |-> [table_id |-> table_idx,
                      row_count |-> table.row_count,
                      column_count |-> table.column_count,
                      cells |-> cells,
                      headers |-> [k \in 1..Len(header_cells) |->
                                     header_cells[k].content]]]

\* DocumentAnalyzerImproved._is_valid_kvp.  hasattr is true of an attribute
\* that is present and None; a missing confidence reads as 0.0.
is_valid_kvp(kvp) ==
  /\ kvp.key.state # "absent"
  /\ kvp.value.state # "absent"
  /\ kvp.confidence >= 50

\* Lines 172-182: what makes the processing of one pair raise.  A
\* confidence that is None makes the comparison of line 254 raise
\* TypeError (reached only when key and value are attributes of the pair).
kvp_raises(kvp) ==
  /\ kvp.key.state # "absent"
  /\ kvp.value.state # "absent"
  /\ kvp.confidence = NoneInt

\* Lines 174-178: the normalized pair.
kvp_data(kvp) ==
  [key |-> IF kvp.key.state = "set" THEN kvp.key.content ELSE <<>>,
   value |-> IF kvp.value.state = "set" THEN kvp.value.content ELSE <<>>,
   confidence |-> kvp.confidence]

\* Variant without the per-item handlers: a failure inside one page, table
\* or pair leaves the method as an exception.
structure_results_fatal_mutant(result, filename) ==
  IF \/ result.null_lists # {}
     \/ \E k \in 1..Len(result.pages) : ~extract_page_data(result.pages[k]).ok
     \/ \E k \in 1..Len(result.tables) :
           ~extract_table_data(result.tables[k], k - 1).ok
     \/ \E k \in 1..Len(result.key_value_pairs) :
           kvp_raises(result.key_value_pairs[k])
  THEN [ok |-> FALSE, exc |-> [type |-> "TypeError", msg |-> "NoneType"]]
  ELSE
  LET pages == [k \in 1..Len(result.pages) |->
                  extract_page_data(result.pages[k])]
      tables == [k \in 1..Len(result.tables) |->
                   extract_table_data(result.tables[k], k - 1)]
      kept_pages == SelectSeq(pages, LAMBDA p : p.ok)
      kept_tables == SelectSeq(tables,
                               LAMBDA t : t.ok /\ t.data.cells # <<>>)
      kept_kvps == SelectSeq(result.key_value_pairs,
                             LAMBDA p : ~kvp_raises(p) /\ is_valid_kvp(p))
      pairs == [k \in 1..Len(kept_kvps) |-> kvp_data(kept_kvps[k])]
      confidence_scores == [k \in 1..Len(pairs) |-> pairs[k].confidence]
      base == [page_count |-> Len(result.pages),
               table_count |-> Len(result.tables),
               confidence_scores |-> confidence_scores]
      RECURSIVE Sum(_)
      Sum(q) == IF q = <<>> THEN 0 ELSE q[1] + Sum(Tail(q))
  IN  [ok |-> TRUE,
       data |->
         [filename |-> filename,
          analysis_timestamp |-> "time",
          pages |-> [k \in 1..Len(kept_pages) |-> kept_pages[k].data],
          tables |-> [k \in 1..Len(kept_tables) |-> kept_tables[k].data],
          key_value_pairs |-> pairs,
          content |-> result.content,
          metadata |->
            IF confidence_scores = <<>> THEN base
            ELSE [page_count |-> base.page_count,
                  table_count |-> base.table_count,
                  confidence_scores |-> confidence_scores,
                  average_confidence |->
                    [num |-> Sum(confidence_scores),
                     den |-> Len(confidence_scores)]]]]

\* DocumentAnalyzerImproved._structure_results.  len() of, or iteration
\* over, a list attribute that is None raises TypeError out of the method;
\* a failure inside one page, table or pair skips that item.
structure_results(result, filename) ==
  IF result.null_lists # {}
  THEN [ok |-> FALSE, exc |-> [type |-> "TypeError", msg |-> "NoneType"]]
  ELSE
  LET pages == [k \in 1..Len(result.pages) |->
                  extract_page_data(result.pages[k])]
      tables == [k \in 1..Len(result.tables) |->
                   extract_table_data(result.tables[k], k - 1)]
      kept_pages == SelectSeq(pages, LAMBDA p : p.ok)
      kept_tables == SelectSeq(tables,
                               LAMBDA t : t.ok /\ t.data.cells # <<>>)
      kept_kvps == SelectSeq(result.key_value_pairs,
                             LAMBDA p : ~kvp_raises(p) /\ is_valid_kvp(p))
      pairs == [k \in 1..Len(kept_kvps) |-> kvp_data(kept_kvps[k])]
      confidence_scores == [k \in 1..Len(pairs) |-> pairs[k].confidence]
      base == [page_count |-> Len(result.pages),
               table_count |-> Len(result.tables),
               confidence_scores |-> confidence_scores]
      RECURSIVE Sum(_)
      Sum(q) == IF q = <<>> THEN 0 ELSE q[1] + Sum(Tail(q))
  IN  [ok |-> TRUE,
       data |->
         [filename |-> filename,
          analysis_timestamp |-> "time",
          pages |-> [k \in 1..Len(kept_pages) |-> kept_pages[k].data],
          tables |-> [k \in 1..Len(kept_tables) |-> kept_tables[k].data],
          key_value_pairs |-> pairs,
          content |-> result.content,
          metadata |->
            IF confidence_scores = <<>> THEN base
            ELSE [page_count |-> base.page_count,
                  table_count |-> base.table_count,
                  confidence_scores |-> confidence_scores,
                  average_confidence |->
                    [num |-> Sum(confidence_scores),
                     den |-> Len(confidence_scores)]]]]


\* ------------------------------------------------------------ inputs
\* Blob names and lengths the trigger delivers.
Files ==
  { [name |-> <<"input-files", "/", "report", ".", "xlsx">>, length |-> 1024],
    [name |-> <<"input-files", "/", "REPORT", ".", "XLSM">>,
     length |-> MAX_FILE_SIZE_MB * MB],
    [name |-> <<"input-files", "/", "report", ".", "xlsx">>,
     length |-> MAX_FILE_SIZE_MB * MB + 1],
    [name |-> <<"input-files", "/", "report", ".", "csv">>, length |-> 1024],
    [name |-> <<"input-files", "/", "report", ".", "csv">>,
     length |-> 60 * MB],
    [name |-> <<"input-files", "/", "archive", ".", "xlsx", ".", "bak">>,
     length |-> 1024],
    [name |-> <<"input", ".", "files", "/", ".", "xlsx">>,
     length |-> 1024] }

Cell(r, c, content) ==
  [row_index |-> r, column_index |-> c, content |-> content,
   has_position |-> TRUE]

Present(content) == [state |-> "set", content |-> content]

EmptyResult ==
  [pages |-> <<>>, tables |-> <<>>, key_value_pairs |-> <<>>,
   content |-> <<>>, null_lists |-> {}]

\* What the service can answer in the handler's runs: a result with one
\* table, a result whose key_value_pairs is None, or an error (an HTTP error
\* or a timeout of the poller).
HandlerResults ==
  { [pages |-> << [page_number |-> 1, lines |-> <<>>, lines_null |-> FALSE] >>,
     tables |-> << [row_count |-> 2, column_count |-> 2,
                    cells |-> << Cell(0, 0, <<"Metric">>),
                                 Cell(0, 1, <<"Value">>),
                                 Cell(1, 0, <<"carbon", " ", "emissions">>),
                                 Cell(1, 1, <<"45", ".", "2", " ", "tons">>) >>] >>,
     key_value_pairs |-> << [key |-> Present(<<"employee", " ", "safety">>),
                             value |-> Present(<<"12">>),
                             confidence |-> 90] >>,
     content |-> <<"Water", " ", "usage", ":", " ", "3200", " ", "liters", ".">>,
     null_lists |-> {}],
    [pages |-> <<>>, tables |-> <<>>, key_value_pairs |-> <<>>,
     content |-> <<>>, null_lists |-> {"key_value_pairs"}] }

ServiceExceptions ==
  { [type |-> "HttpResponseError", msg |-> "service error"] }

ServiceOutcomes ==
  {[raises |-> TRUE, exc |-> e, result |-> CHOOSE r \in HandlerResults : TRUE] :
     e \in ServiceExceptions}
  \cup {[raises |-> FALSE, exc |-> NoExc, result |-> r] : r \in HandlerResults}

\* The process environment: which settings are configured.
Environments ==
  { [endpoint |-> TRUE, api_key |-> TRUE, use_managed_identity |-> FALSE],
    [endpoint |-> TRUE, api_key |-> FALSE, use_managed_identity |-> TRUE],
    [endpoint |-> TRUE, api_key |-> FALSE, use_managed_identity |-> FALSE],
    [endpoint |-> FALSE, api_key |-> TRUE, use_managed_identity |-> FALSE] }

\* ------------------------------------------------------------- state
VARIABLES
  env,            \* os.environ, fixed for the life of the process
  doc_analyzer,   \* the module global: 0 is None, n the n-th instance built
  data_processor, \* the module global: 0 is None, n the n-th instance built
  docBuilt,       \* how many DocumentAnalyzerImproved objects were built
  procBuilt,      \* how many ESGDataProcessor objects were built
  pc,             \* per invocation: where it is in process_esg_excel
  inputblob,      \* per invocation: [name, length]
  attempt,        \* per invocation: the wrapper's loop variable
  retry_delay,    \* per invocation: the wrapper's retry_delay
  sleeps,         \* per invocation: the arguments of time.sleep, in order
  calls,          \* per invocation: calls of begin_analyze_document
  last_exc,       \* per invocation: the exception of the latest failed attempt
  outputblob,     \* per invocation: the values given to outputblob.set
  raised,         \* per invocation: the exception that left the handler
  stage,          \* the adapter/classifier pipeline run on its own
  result,         \*   the service's result
  record,         \*   the normalized record
  report,         \*   the classifier's report
  rerun           \*   the report of a second classification of the record

handlerVars == <<env, doc_analyzer, data_processor, docBuilt, procBuilt, pc,
                 inputblob, attempt, retry_delay, sleeps, calls,
                 last_exc, outputblob, raised>>

pipelineVars == <<stage, result, record, report, rerun>>

vars == <<handlerVars, pipelineVars>>

NoFile == [name |-> <<>>, length |-> 0]

InitHandler ==
  /\ env \in Environments
  /\ doc_analyzer = 0
  /\ data_processor = 0
  /\ docBuilt = 0
  /\ procBuilt = 0
  /\ pc = [i \in Invocations |-> "idle"]
  /\ inputblob = [i \in Invocations |-> NoFile]
  /\ attempt = [i \in Invocations |-> 0]
  /\ retry_delay = [i \in Invocations |-> delay]
  /\ sleeps = [i \in Invocations |-> <<>>]
  /\ calls = [i \in Invocations |-> 0]
  /\ last_exc = [i \in Invocations |-> NoExc]
  /\ outputblob = [i \in Invocations |-> <<>>]
  /\ raised = [i \in Invocations |-> NoExc]


InitPipelineIdle ==
  /\ stage = "idle"
  /\ result = EmptyResult
  /\ record = <<>>
  /\ report = <<>>
  /\ rerun = <<>>

Init == InitHandler /\ InitPipelineIdle

\* ------------------------------------------------- function_app.py
\* process_esg_excel, lines 54-68: a new invocation with its input blob.
Begin(i) ==
  /\ pc[i] = "idle"
  /\ \E f \in Files : inputblob' = [inputblob EXCEPT ![i] = f]
  /\ pc' = [pc EXCEPT ![i] = "get_doc"]
  /\ UNCHANGED <<env, doc_analyzer, data_processor, docBuilt, procBuilt,
                 attempt, retry_delay, sleeps, calls, last_exc,
                 outputblob, raised, pipelineVars>>

Finished(i) == pc[i] \in {"returned", "failed"}

\* A host whose worker runs the handler on a pool of threads: an invocation
\* starts while earlier ones are still running.  Invocations are numbered in
\* the order the host starts them.
StartThread(i) ==
  /\ \A j \in Invocations : j < i => pc[j] # "idle"
  /\ Begin(i)

\* A host whose worker runs one invocation at a time: an invocation starts
\* when the earlier ones have ended.
Start(i) ==
  /\ \A j \in Invocations : j < i => Finished(j)
  /\ Begin(i)

\* Lines 61-68 and 107-127: what the two except clauses do with exception e.
\* A ValueError is written without traceback and swallowed; anything else
\* is written with the traceback and re-raised.
HandleExceptionReraise(i, e) ==
  /\ outputblob' = [outputblob EXCEPT ![i] =
       Append(@, [status |-> "error", filename |-> inputblob[i].name,
                  correlation_id |-> i, error |-> e.type, details |-> e.msg,
                  traceback |-> "traceback"])]
  /\ pc' = [pc EXCEPT ![i] = "failed"]
  /\ raised' = [raised EXCEPT ![i] = e]

HandleException(i, e) ==
  IF e.type = "ValueError"
  THEN /\ outputblob' = [outputblob EXCEPT ![i] =
            Append(@, [status |-> "error", filename |-> inputblob[i].name,
                       correlation_id |-> i, error |-> "Validation Error",
                       details |-> e.msg])]
       /\ pc' = [pc EXCEPT ![i] = "returned"]
       /\ raised' = raised
  ELSE /\ outputblob' = [outputblob EXCEPT ![i] =
            Append(@, [status |-> "error", filename |-> inputblob[i].name,
                       correlation_id |-> i, error |-> e.type,
                       details |-> e.msg, traceback |-> "traceback"])]
       /\ pc' = [pc EXCEPT ![i] = "failed"]
       /\ raised' = [raised EXCEPT ![i] = e]

\* get_line 27: the test of the global.
CheckDocAnalyzer(i) ==
  /\ pc[i] = "get_doc"
  /\ pc' = [pc EXCEPT ![i] = IF doc_analyzer = 0 THEN "init_doc" ELSE "get_proc"]
  /\ UNCHANGED <<env, doc_analyzer, data_processor, docBuilt, procBuilt,
                 inputblob, attempt, retry_delay, sleeps, calls,
                 last_exc, outputblob, raised, pipelineVars>>

\* DocumentAnalyzerImproved.__init__: the exception it raises, if any.
init_exception(e) ==
  IF ~e.endpoint
  THEN ValueError("DOCUMENTINTELLIGENCE_ENDPOINT not configured")
  ELSE IF ~e.use_managed_identity /\ ~e.api_key
       THEN ValueError("DOCUMENTINTELLIGENCE_API_KEY not configured")
       ELSE NoExc

\* get_lines 28-29: build the analyzer and store it in the global.
InitDocAnalyzer(i) ==
  /\ pc[i] = "init_doc"
  /\ IF init_exception(env) # NoExc
     THEN /\ HandleException(i, init_exception(env))
          /\ UNCHANGED <<doc_analyzer, docBuilt>>
     ELSE /\ docBuilt' = docBuilt + 1
          /\ doc_analyzer' = docBuilt + 1
          /\ pc' = [pc EXCEPT ![i] = "get_proc"]
          /\ UNCHANGED <<outputblob, raised>>
  /\ UNCHANGED <<env, data_processor, procBuilt, inputblob, attempt, retry_delay, sleeps, calls, last_exc, pipelineVars>>

\* get_lines 31 and 34: the test of the second global; when it is
\* set, both globals are returned.
CheckDataProcessor(i) ==
  /\ pc[i] = "get_proc"
  /\ IF data_processor = 0
     THEN pc' = [pc EXCEPT ![i] = "init_proc"]
     ELSE pc' = [pc EXCEPT ![i] = "analyze"]
  /\ UNCHANGED <<env, doc_analyzer, data_processor, docBuilt, procBuilt,
                 inputblob, attempt, retry_delay, sleeps, calls, last_exc,
                 outputblob, raised, pipelineVars>>

\* get_analyzers, lines 32-34: build the processor, store it, return both.
InitDataProcessor(i) ==
  /\ pc[i] = "init_proc"
  /\ procBuilt' = procBuilt + 1
  /\ data_processor' = procBuilt + 1
  /\ pc' = [pc EXCEPT ![i] = "analyze"]
  /\ UNCHANGED <<env, doc_analyzer, docBuilt, inputblob, attempt, retry_delay,
                 sleeps, calls, last_exc, outputblob, raised, pipelineVars>>

\* Mutant: the last attempt is taken to be the one after the third.
IsLastAttemptLate(a) == a = max_retries

\* retry_on_exception, line 21.
IsLastAttempt(a) == a = max_retries - 1

\* Lines 89-102: the success output.
SuccessOutput(i, extracted_data, esg_data) ==
  [filename |-> esg_data.filename,
   extraction_date |-> esg_data.extraction_date,
   metrics |-> esg_data.metrics,
   summary |-> esg_data.summary,
   metadata |-> esg_data.metadata,
   processing_metadata |->
     [correlation_id |-> i, status |-> "success",
      file_size_bytes |-> inputblob[i].length,
      processing_timestamp |-> extracted_data.analysis_timestamp,
      document_intelligence_metadata |-> extracted_data.metadata]]

\* One pass of the loop of retry_on_exception around analyze_excel (lines
\* 17-25 and 101-128), with what follows it in process_esg_excel: validate,
\* call the service, normalize; on success classify and write the output
\* (lines 83-105); on the last failure hand the exception to the handler's
\* except clauses; on an earlier failure sleep, lengthen the delay and go
\* round again (the loop running out returns None, line 26, on which line
\* 85 raises AttributeError).
Attempt(i) ==
  /\ pc[i] = "analyze"
  /\ attempt[i] < max_retries
  /\ \E outcome \in ServiceOutcomes :
     \E invalid \in {validate_file(inputblob[i].length, inputblob[i].name)} :
     \E sr \in {structure_results(outcome.result, inputblob[i].name)} :
       LET e == IF invalid # NoExc THEN invalid
                ELSE IF outcome.raises THEN outcome.exc
                ELSE IF ~sr.ok THEN sr.exc
                ELSE NoExc
       IN  /\ calls' = [calls EXCEPT ![i] = IF invalid = NoExc THEN @ + 1 ELSE @]
           /\ IF e = NoExc
              THEN /\ \E esg_data \in {process_esg_data(sr.data)} :
                        outputblob' = [outputblob EXCEPT ![i] =
                          Append(@, SuccessOutput(i, sr.data, esg_data))]
                   /\ pc' = [pc EXCEPT ![i] = "returned"]
                   /\ UNCHANGED <<attempt, retry_delay, sleeps, last_exc, raised>>
              ELSE /\ last_exc' = [last_exc EXCEPT ![i] = e]
                   /\ IF IsLastAttempt(attempt[i])
                      THEN /\ HandleException(i, e)
                           /\ UNCHANGED <<attempt, retry_delay, sleeps>>
                      ELSE /\ sleeps' = [sleeps EXCEPT ![i] = Append(@, retry_delay[i])]
                           /\ retry_delay' = [retry_delay EXCEPT ![i] = @ * backoff]
                           /\ attempt' = [attempt EXCEPT ![i] = @ + 1]
                           /\ IF attempt[i] + 1 < max_retries
                              THEN UNCHANGED <<pc, outputblob, raised>>
                              ELSE HandleException(i,
                                     [type |-> "AttributeError",
                                      msg |-> "NoneType has no attribute get"])
  /\ UNCHANGED <<env, doc_analyzer, data_processor, docBuilt, procBuilt,
                 inputblob, pipelineVars>>

Step(i) ==
  \/ CheckDocAnalyzer(i)
  \/ InitDocAnalyzer(i)
  \/ CheckDataProcessor(i)
  \/ InitDataProcessor(i)
  \/ Attempt(i)

Next == \E i \in Invocations : StartThread(i) \/ Step(i)

\* Invocations interleaved by the host's thread pool.
Spec == Init /\ [][Next]_vars

NextSerial == \E i \in Invocations : Start(i) \/ Step(i)

\* Invocations one after the other.
SpecSerial == Init /\ [][NextSerial]_vars


\* ------------------------------------------ the pipeline on its own
\* Bounds on the service results the pipeline is run on.
MaxTables == 2
MaxPairs == 2

\* All sequences over S of length 1..n.
SeqsUpTo(S, n) == UNION {[1..k -> S] : k \in 1..n}

Absent == [state |-> "absent", content |-> <<>>]

Null == [state |-> "null", content |-> <<>>]

Pair(key, value, confidence) ==
  [key |-> key, value |-> value, confidence |-> confidence]

HeaderRow == << Cell(0, 0, <<"Metric">>), Cell(0, 1, <<"Value">>),
                Cell(0, 2, <<"Unit">>) >>

\* A header whose first cell is itself a keyword followed by a number.
YearHeaderRow == << Cell(0, 0, <<"Energy">>), Cell(0, 1, <<"2">>),
                    Cell(0, 2, <<"Unit">>) >>

Table(cells) == [row_count |-> 2, column_count |-> 3, cells |-> cells]

\* Cell texts of the data row: labels of the three categories, bare
\* numbers, unit words, a number with its unit, and text that is neither.
Labels == { <<"carbon", " ", "emissions">>, <<"Employee", " ", "safety">>,
            <<"Board", " ", "audit">> }

BareNumbers == { <<"45", ".", "2">>, <<"1", ",", "234">>, <<"0">> }

UnitWords == { <<"tons">>, <<"MWh">> }

OtherTexts == { <<"45", ".", "2", " ", "tons">>, <<"abc">>, <<>> }

\* Two-row tables: a header and one data row of three cells.
RowTables ==
  { Table(h \o << Cell(1, 0, a), Cell(1, 1, b), Cell(1, 2, c) >>) :
      h \in {HeaderRow, YearHeaderRow},
      a \in Labels \cup {<<"abc">>},
      b \in BareNumbers \cup OtherTexts,
      c \in UnitWords \cup {<<"45", ".", "2", " ", "tons">>} }

\* Tables of other shapes: no cells; cells out of order with one position
\* given twice; a cell without position; three rows with a gap in the
\* columns and the label in the middle.
OddTables ==
  { Table(<<>>),
    Table(<< Cell(1, 1, <<" ", "5", "%">>), Cell(0, 0, <<"Metric">>),
             Cell(1, 0, <<"water", " ", "use">>), Cell(1, 1, <<"12", " ", "MWh">>) >>),
    Table(<< Cell(0, 0, <<"Metric">>),
             [row_index |-> 1, column_index |-> 0, content |-> <<"waste">>,
              has_position |-> FALSE] >>),
    Table(HeaderRow \o
          << Cell(1, 0, <<"1">>), Cell(1, 1, <<"scarbon">>), Cell(1, 3, <<"5">>),
             Cell(2, 0, <<"note">>), Cell(2, 1, <<"CARBON", " ", "risk">>),
             Cell(2, 3, <<"-", "5">>), Cell(2, 4, <<".", "5", "%">>) >>),
    Table(HeaderRow \o
          << Cell(1, 0, <<"carbon", " ", "emissions">>), Cell(1, 1, <<"1", ",", "234">>),
             Cell(1, 2, <<"MWh">>) >>) }

PairChoices ==
  { Pair(Present(<<"employee", " ", "safety", " ", "incidents">>), Present(<<"12">>), 90),
    Pair(Present(<<"Carbon">>), Present(<<"1", ",", "234", ".", "5", " ", "MWh">>), 40),
    Pair(Present(<<"water", " ", "usage">>), Null, 90),
    Pair(Null, Present(<<"5">>), 50),
    Pair(Absent, Present(<<"5">>), 90),
    Pair(Present(<<"energy">>), Present(<<"1", ".", "2", ".", "5">>), 50),
    Pair(Present(<<"note">>), Present(<<"5">>), 90),
    Pair(Present(<<"employee", " ", "carbon", " ", "training">>),
         Present(<<"5", " ", "%">>), 90),
    Pair(Present(<<"Board", " ", "diversity">>), Present(<<"12">>), 50),
    Pair(Present(<<"carbon", "2">>), Present(<<"12">>), 90),
    Pair(Present(<<"waste">>), Present(<<"5">>), NoneInt) }

Contents ==
  { <<"Water", " ", "usage", ":", " ", "3200", " ", "liters", ".">>,
    <<"Carbon", ":", " ", "1", ",", "234", " ", "tons", "!", " ",
      "employee", " ", "count", ":", "12">>,
    <<"Board", " ", "meeting", " ", "at", " ", "12", ":", "45", ".", " ",
      "risk", ":", " ", "abc">>,
    <<"energy", ":", " ", "45", ".", "2", " ", "MWh">>,
    <<"waste", ":", " ", " ", "tons", "?", "climate", ":", " ", "1", " ", "2", " ", "kg">>,
    <<"note", ":", "Water", ":", " ", ",", "5", "%">>,
    <<"abc">>,
    <<>> }

GoodPage == [page_number |-> 1, lines |-> << <<"Water">> >>, lines_null |-> FALSE]

BadPage == [page_number |-> 2, lines |-> <<>>, lines_null |-> TRUE]

Result(pages, tables, pairs, content) ==
  [pages |-> pages, tables |-> tables, key_value_pairs |-> pairs,
   content |-> content, null_lists |-> {}]

\* The service results the pipeline is run on: one table of each shape;
\* several tables; several pairs; free text; and all parts together.
PipelineResults ==
  {Result(<<>>, <<t>>, <<>>, <<>>) : t \in RowTables}
  \cup {Result(<<>>, ts, <<>>, <<>>) : ts \in SeqsUpTo(OddTables, MaxTables)}
  \cup {Result(<<>>, <<>>, ps, <<>>) : ps \in SeqsUpTo(PairChoices, MaxPairs)}
  \cup {Result(<<>>, <<>>, <<>>, c) : c \in Contents}
  \cup {Result(<<BadPage, GoodPage>>, <<t>>, <<p>>, c) :
          t \in OddTables, p \in PairChoices, c \in Contents}

PipelineFile == <<"input-files", "/", "report", ".", "xlsx">>

InitClassify ==
  /\ InitHandler
  /\ env = [endpoint |-> TRUE, api_key |-> TRUE, use_managed_identity |-> FALSE]
  /\ stage = "result"
  /\ result \in PipelineResults
  /\ record = <<>>
  /\ report = <<>>
  /\ rerun = <<>>

\* analyze_excel, line 121: the adapter normalizes the service's result.
Normalize ==
  /\ stage = "result"
  /\ structure_results(result, PipelineFile).ok
  /\ record' = structure_results(result, PipelineFile).data
  /\ stage' = "normalized"
  /\ UNCHANGED <<handlerVars, result, report, rerun>>

\* process_esg_excel, line 89: the classifier runs on the record.
Classify ==
  /\ stage = "normalized"
  /\ report' = process_esg_data(record)
  /\ stage' = "classified"
  /\ UNCHANGED <<handlerVars, result, record, rerun>>

\* process_esg_data called again on the same record.  The processor keeps
\* nothing but metric_patterns, set when it is built (lines 29-41), and
\* each call starts from a new ESGReport with metrics=[] (lines 56-60), so
\* the same instance and a fresh one run alike.
Reclassify ==
  /\ stage = "classified"
  /\ rerun' = process_esg_data(record)
  /\ stage' = "reclassified"
  /\ UNCHANGED <<handlerVars, result, record, report>>

NextClassify == Normalize \/ Classify \/ Reclassify

SpecClassify == InitClassify /\ [][NextClassify]_vars


\* ====================================================== properties
Analyzed(i) == pc[i] = "analyze" \/ Finished(i)

SucceededOutput(i) ==
  /\ outputblob[i] # <<>>
  /\ "processing_metadata" \in DOMAIN outputblob[i][1]

\* The blob names whose lower-cased extension is .xlsx, .xls or .xlsm.  A name
\* that is only ".xlsx" has no extension, and neither has "x.xlsx.bak".
AllowedNames ==
  { <<"input-files", "/", "report", ".", "xlsx">>,
    <<"input-files", "/", "REPORT", ".", "XLSM">> }

TooLarge(f) == f.length > 52428800

BadFile(f) == f.name \notin AllowedNames \/ TooLarge(f)

\* C1: analyze fails with a ValidationError and without any call of the
\* service when the extension is not .xlsx/.xls/.xlsm (at any size) or the
\* file is longer than 50 MB (the size being checked first, its message
\* cites the maximum); a file with an allowed extension and at most 50 MB
\* passes validation and the service is called on every attempt.
C1_ValidationBeforeService ==
  \A i \in Invocations :
     /\ BadFile(inputblob[i]) =>
          /\ calls[i] = 0
          /\ ~SucceededOutput(i)
          /\ attempt[i] > 0 \/ (Finished(i) /\ docBuilt > 0) =>
               last_exc[i] = [type |-> "ValueError",
                              msg |-> IF TooLarge(inputblob[i])
                                      THEN "File size exceeds maximum 50MB"
                                      ELSE "Invalid file extension"]
     /\ ~BadFile(inputblob[i]) /\ Analyzed(i) =>
          /\ calls[i] = attempt[i] + (IF Finished(i) /\ docBuilt > 0 THEN 1 ELSE 0)
          /\ last_exc[i].type # "ValueError"

C1_Witness ==
  \E i, j \in Invocations :
     /\ inputblob[i].name = <<"input-files", "/", "report", ".", "csv">>
     /\ pc[i] = "returned" /\ calls[i] = 0
     /\ outputblob[i][1].error = "Validation Error"
     /\ inputblob[j].length = 52428800
     /\ Finished(j) /\ calls[j] >= 1

ValidationMessages == {"File size exceeds maximum 50MB", "Invalid file extension"}

\* C2: an invocation that fails with a validation error (size or
\* extension) writes the error JSON -- status, filename, correlation_id,
\* error, details and no traceback -- and returns normally.
C2_ValidationSwallowed ==
  \A i \in Invocations :
     Finished(i) /\ last_exc[i].type = "ValueError"
                 /\ last_exc[i].msg \in ValidationMessages =>
        /\ pc[i] = "returned"
        /\ raised[i] = NoExc
        /\ outputblob[i] =
             << [status |-> "error", filename |-> inputblob[i].name,
                 correlation_id |-> i, error |-> "Validation Error",
                 details |-> last_exc[i].msg] >>

C2_Witness ==
  \E i \in Invocations :
     /\ pc[i] = "returned"
     /\ last_exc[i].msg = "File size exceeds maximum 50MB"
     /\ Len(outputblob[i]) = 1
     /\ outputblob[i][1].status = "error"

\* C3 (as claimed): every failure that is not a size/extension validation
\* failure -- a service failure after the retries, a failure to build the
\* components -- is written with a traceback and re-raised to the host.
C3_OtherFailuresReraised ==
  \A i \in Invocations :
     Finished(i) /\ ~SucceededOutput(i)
                 /\ outputblob[i][1].details \notin ValidationMessages =>
        /\ "traceback" \in DOMAIN outputblob[i][1]
        /\ pc[i] = "failed"
        /\ raised[i] # NoExc

\* C4: the service is attempted at most 3 times per analyze call; a success
\* ends the call at once; each failure but the third is followed by a sleep,
\* of 2 s then 4 s; the third failure's exception is the one that leaves the
\* call, with no further sleep or attempt.
C4_RetryPolicy ==
  \A i \in Invocations :
     /\ calls[i] <= 3
     /\ attempt[i] <= 2
     /\ sleeps[i] = SubSeq(<<2, 4>>, 1, attempt[i])
     /\ SucceededOutput(i) =>
          /\ pc[i] = "returned"
          /\ calls[i] = attempt[i] + 1
     /\ Finished(i) /\ ~SucceededOutput(i) /\ docBuilt > 0 =>
          /\ attempt[i] = 2
          /\ calls[i] \in {0, 3}
          /\ outputblob[i][1].details = last_exc[i].msg
          /\ pc[i] = "failed" => raised[i] = last_exc[i]

C4_Witness ==
  \E i \in Invocations :
     /\ pc[i] = "failed"
     /\ calls[i] = 3
     /\ sleeps[i] = <<2, 4>>
     /\ raised[i].type = "TypeError"

\* C10 (as claimed): over any interleaving of invocations each of the two
\* components is constructed at most once.
C10_BuiltOnce == docBuilt <= 1 /\ procBuilt <= 1


\* ------------------------------------------- the pipeline's properties
TemplateLabel(t) == t.cells[Len(t.cells) - 2].content

TemplateNumber(t) == t.cells[Len(t.cells) - 1].content

TemplateUnit(t) == t.cells[Len(t.cells)].content

\* A normalized table of two rows: a header and the row
\* [label, bare number, unit word].
IsTemplate(t) ==
  /\ Len(t.cells) = 6
  /\ \A k \in 1..3 : t.cells[k].row_index = 0
  /\ \A k \in 4..6 : t.cells[k].row_index = 1 /\ t.cells[k].column_index = k - 4
  /\ TemplateLabel(t) \in Labels
  /\ TemplateNumber(t) \in BareNumbers
  /\ TemplateUnit(t) \in UnitWords

LabelCategory(label) ==
  CASE label = <<"carbon", " ", "emissions">> -> "environmental"
    [] label = <<"Employee", " ", "safety">> -> "social"
    [] label = <<"Board", " ", "audit">> -> "governance"

NumberValue(number) ==
  CASE number = <<"45", ".", "2">> -> [mant |-> 452, scale |-> 1]
    [] number = <<"1", ",", "234">> -> [mant |-> 1234, scale |-> 0]
    [] number = <<"0">> -> [mant |-> 0, scale |-> 0]

\* The metrics of the report tagged with the table at position k (from 1).
MetricsOfTable(k) ==
  SelectSeq(report.metrics, LAMBDA m : m.source_table = k - 1)

FromDataRow(k) ==
  \A j \in 1..Len(MetricsOfTable(k)) :
     \E c \in 1..Len(record.tables[k].cells) :
        /\ record.tables[k].cells[c].row_index # 0
        /\ record.tables[k].cells[c].content = MetricsOfTable(k)[j].metric_name

TemplateMetric(t, k, unit) ==
  [category |-> LabelCategory(TemplateLabel(t)),
   metric_name |-> TemplateLabel(t),
   value |-> NumberValue(TemplateNumber(t)),
   unit |-> unit, year |-> 0 - 1, source_table |-> k - 1,
   source_page |-> 0 - 1, confidence |-> 80]

\* C5 (as claimed): a table at index i with a header row and the data row
\* [label of category C, bare number v, unit word u] yields exactly one
\* metric, {C, label, v, unit u, confidence 0.8, source_table i}, and no
\* metric comes from row 0.
C5_TableMetricWithUnit ==
  stage = "classified" =>
    \A k \in 1..Len(record.tables) :
       /\ FromDataRow(k)
       /\ IsTemplate(record.tables[k]) =>
            MetricsOfTable(k) =
              << TemplateMetric(record.tables[k], k,
                                TemplateUnit(record.tables[k])) >>

\* C5 (amended): as above, but the metric's unit is none: the unit is read
\* from the cell that holds the number, and a bare number has none.
C5_TableMetricNoUnit ==
  stage = "classified" =>
    \A k \in 1..Len(record.tables) :
       /\ FromDataRow(k)
       /\ IsTemplate(record.tables[k]) =>
            MetricsOfTable(k) = << TemplateMetric(record.tables[k], k, <<>>) >>

C5_Witness ==
  /\ stage = "classified"
  /\ Len(record.tables) = 2
  /\ IsTemplate(record.tables[2])
  /\ Len(MetricsOfTable(2)) = 1
  /\ MetricsOfTable(2)[1].source_table = 1

\* C6 (as claimed): the record's key_value_pairs are exactly the service's
\* pairs that have a key and a value and a confidence of at least 0.5.
C6_PairsFiltered ==
  stage # "result" =>
    LET kept == SelectSeq(result.key_value_pairs,
                          LAMBDA p : /\ p.key.state = "set"
                                     /\ p.value.state = "set"
                                     /\ p.confidence >= 50)
    IN  record.key_value_pairs =
          [k \in 1..Len(kept) |->
             [key |-> kept[k].key.content, value |-> kept[k].value.content,
              confidence |-> kept[k].confidence]]

EnvironmentalWords ==
  {"carbon", "emission", "ghg", "energy", "renewable", "waste", "water",
   "recycling", "biodiversity", "climate", "pollution", "sustainability"}

SocialWords ==
  {"employee", "diversity", "inclusion", "safety", "health", "community",
   "labor", "training", "education", "privacy"}

GovernanceWords ==
  {"board", "ethics", "compliance", "risk", "audit", "transparency",
   "corruption", "policy", "management", "shareholder", "stakeholder"}

\* The text holds one of the words as a whole word, in any case.
HasWord(text, words) ==
  \E k \in 1..Len(text) :
     /\ LowerToken(text[k]) \in words
     /\ (k = 1 \/ ~IsWord(text[k - 1]))
     /\ (k = Len(text) \/ ~IsWord(text[k + 1]))

ExpectedCategory(text) ==
  IF HasWord(text, EnvironmentalWords) THEN "environmental"
  ELSE IF HasWord(text, SocialWords) THEN "social"
  ELSE IF HasWord(text, GovernanceWords) THEN "governance"
  ELSE "None"

\* C7: categorize returns the first category, in the order environmental,
\* social, governance, that has a keyword in the text as a whole word, and
\* none when there is no such category, wherever the keywords stand.
C7_CategoryOrder ==
  /\ stage # "result" =>
       \A k \in 1..Len(record.key_value_pairs) :
          categorize_text(record.key_value_pairs[k].key)
            = ExpectedCategory(record.key_value_pairs[k].key)
  /\ stage # "result" =>
       \A k \in 1..Len(record.tables) :
          \A c \in 1..Len(record.tables[k].cells) :
             categorize_text(record.tables[k].cells[c].content)
               = ExpectedCategory(record.tables[k].cells[c].content)
  /\ stage = "classified" =>
       \A k \in 1..Len(report.metrics) :
          report.metrics[k].category
            = ExpectedCategory(report.metrics[k].metric_name)

C7_Witness ==
  /\ stage = "classified"
  /\ \E k \in 1..Len(report.metrics) :
        /\ report.metrics[k].metric_name
             = <<"employee", " ", "carbon", " ", "training">>
        /\ report.metrics[k].category = "environmental"
  /\ \E k \in 1..Len(report.metrics) :
        /\ report.metrics[k].metric_name = <<"Board", " ", "diversity">>
        /\ report.metrics[k].category = "social"

\* Values that are no number: empty, two decimal points, letters, a sign.
UnparseableValues ==
  { <<>>, <<"1", ".", "2", ".", "5">>, <<"abc">>, <<"-", "5">> }

\* Labels of the free text whose number is missing or broken by a blank.
UnparseableSentenceLabels == { <<"waste">>, <<"climate">>, <<"risk">> }

\* C8: every metric of the report has one of the three categories and a
\* number for its value; a candidate whose value does not parse yields no
\* metric.
C8_MetricsComplete ==
  stage = "classified" =>
    /\ \A k \in 1..Len(report.metrics) :
          /\ report.metrics[k].category
               \in {"environmental", "social", "governance"}
          /\ report.metrics[k].value.mant >= 0
          /\ report.metrics[k].value.scale >= 0
          /\ report.metrics[k].metric_name \notin UnparseableSentenceLabels
    /\ \A p \in 1..Len(record.key_value_pairs) :
          record.key_value_pairs[p].value \in UnparseableValues =>
             \A k \in 1..Len(report.metrics) :
                \/ report.metrics[k].metric_name # record.key_value_pairs[p].key
                \/ report.metrics[k].confidence
                     # record.key_value_pairs[p].confidence

C8_Witness ==
  /\ stage = "classified"
  /\ Len(record.key_value_pairs) = 2
  /\ record.key_value_pairs[1].value = <<"1", ".", "2", ".", "5">>
  /\ record.key_value_pairs[2].value = <<"12">>
  /\ \E k \in 1..Len(report.metrics) :
        /\ report.metrics[k].metric_name = record.key_value_pairs[2].key
        /\ report.metrics[k].value = [mant |-> 12, scale |-> 0]

\* C9: total_metrics is the length of the metrics list; metrics_by_category
\* has exactly the three categories, each with the number of its metrics, so
\* they add up to the total; with no metrics the counts are 0 and
\* average_confidence is 0.0.
C9_Summary ==
  stage = "classified" =>
    LET metrics == report.metrics
        summary == report.summary
        count(c) == Len(SelectSeq(metrics, LAMBDA m : m.category = c))
    IN  /\ summary.total_metrics = Len(metrics)
        /\ DOMAIN summary.metrics_by_category
             = {"environmental", "social", "governance"}
        /\ \A c \in {"environmental", "social", "governance"} :
              summary.metrics_by_category[c] = count(c)
        /\ summary.metrics_by_category.environmental
             + summary.metrics_by_category.social
             + summary.metrics_by_category.governance = summary.total_metrics
        /\ metrics = <<>> =>
             /\ summary.metrics_by_category
                  = [environmental |-> 0, social |-> 0, governance |-> 0]
             /\ summary.average_confidence = [num |-> 0, den |-> 1]

C9_Witness ==
  /\ stage = "classified"
  /\ report.summary.total_metrics = 3
  /\ report.summary.metrics_by_category.environmental = 1
  /\ report.summary.metrics_by_category.social = 1
  /\ report.summary.metrics_by_category.governance = 1


\* What makes the processing of one item of the service's result fail: a
\* page whose lines are None, a table with a cell that has no position, a
\* pair whose confidence is None.
PageFails(page) == page.lines_null

TableFails(table) == \E c \in 1..Len(table.cells) : ~table.cells[c].has_position

PairFails(pair) ==
  pair.confidence = 0 - 1 /\ pair.key.state # "absent" /\ pair.value.state # "absent"

HasFailingItem(res) ==
  \/ \E k \in 1..Len(res.pages) : PageFails(res.pages[k])
  \/ \E k \in 1..Len(res.tables) : TableFails(res.tables[k])
  \/ \E k \in 1..Len(res.key_value_pairs) : PairFails(res.key_value_pairs[k])

\* The positions (from 0) of the service's tables that do not fail and have
\* cells, in order.
RECURSIVE GoodTableIds(_, _)
GoodTableIds(tables, k) ==
  IF k > Len(tables) THEN <<>>
  ELSE (IF ~TableFails(tables[k]) /\ tables[k].cells # <<>>
        THEN <<k - 1>> ELSE <<>>) \o GoodTableIds(tables, k + 1)

GoodPages(res) == SelectSeq(res.pages, LAMBDA p : ~PageFails(p))

GoodPairs(res) ==
  SelectSeq(res.key_value_pairs,
            LAMBDA p : /\ ~PairFails(p)
                       /\ p.key.state # "absent" /\ p.value.state # "absent"
                       /\ p.confidence >= 50)

\* C11: a failure while normalizing one page, table or pair skips that item
\* only: the adapter still returns a record, the other items that it keeps
\* appear in their original order, and the run goes on to classification.
C11_ItemFailureSkipped ==
  /\ stage = "result" /\ result.null_lists = {} =>
       structure_results(result, PipelineFile).ok
  /\ stage # "result" =>
       /\ [k \in 1..Len(record.pages) |-> record.pages[k].page_number]
            = [k \in 1..Len(GoodPages(result)) |->
                 GoodPages(result)[k].page_number]
       /\ [k \in 1..Len(record.tables) |-> record.tables[k].table_id]
            = GoodTableIds(result.tables, 1)
       /\ [k \in 1..Len(record.key_value_pairs) |->
             <<record.key_value_pairs[k].key,
               record.key_value_pairs[k].confidence>>]
            = [k \in 1..Len(GoodPairs(result)) |->
                 <<IF GoodPairs(result)[k].key.state = "set"
                   THEN GoodPairs(result)[k].key.content ELSE <<>>,
                   GoodPairs(result)[k].confidence>>]

C11_Witness ==
  /\ stage = "classified"
  /\ Len(result.pages) = 2 /\ PageFails(result.pages[1])
  /\ Len(record.pages) = 1
  /\ Len(result.tables) = 1 /\ TableFails(result.tables[1])
  /\ record.tables = <<>>
  /\ Len(result.key_value_pairs) = 1 /\ PairFails(result.key_value_pairs[1])
  /\ record.key_value_pairs = <<>>


\* The pass a metric comes from: 1 the tables (which set source_table),
\* 2 the key-value pairs, 3 the free text (confidence 0.6; no pair of the
\* inputs has that confidence).
PassOf(m) ==
  IF m.source_table # 0 - 1 THEN 1 ELSE IF m.confidence = 60 THEN 3 ELSE 2

PassMetrics(metrics, n) == SelectSeq(metrics, LAMBDA m : PassOf(m) = n)

\* The metrics ms follow the order of the record's pairs: they are made
\* from pairs at increasing positions.
InPairOrder(ms, pairs) ==
  \E f \in [1..Len(ms) -> 1..Len(pairs)] :
     /\ \A a, b \in 1..Len(ms) : a < b => f[a] < f[b]
     /\ \A a \in 1..Len(ms) :
           /\ ms[a].metric_name = pairs[f[a]].key
           /\ ms[a].confidence = pairs[f[a]].confidence

\* Where a label starts in the free text.
LabelStart(content, label) ==
  CHOOSE k \in 1..Len(content) :
     /\ content[k] = label[1]
     /\ \A j \in 1..(k - 1) : content[j] # label[1]

C13_ValidationNotRetried ==
  \A i \in Invocations :
     pc[i] # "idle" /\ BadFile(inputblob[i]) =>
        /\ sleeps[i] = <<>>
        /\ attempt[i] = 0


\* C14: in the pipeline, the source_table of every metric of the table pass
\* is the table_id of the normalized table it was extracted from (the
\* table's position in the service's result), also when the adapter dropped
\* tables without cells or tables that failed.
C14_SourceTableIsTableId ==
  stage = "classified" =>
    \A k \in 1..Len(record.tables) :
       \A j \in 1..Len(MetricsOfTable(k)) :
          MetricsOfTable(k)[j].source_table = record.tables[k].table_id

====
